---- MODULE Spec2Model ----
(***************************************************************************)
(* A model of cdflib's cdf_to_xarray.py: the conversion of a CDF variable  *)
(* catalog (attributes, data, properties per variable) into an xarray      *)
(* Dataset (dimension names per variable, coordinates, data variables).    *)
(*                                                                         *)
(* Abstractions.  A variable's data is its leading length (len(data)) and  *)
(* its element count (data.size).  A dimension name is a record: the name  *)
(* of a catalog variable v (kind "var"), v + "_dim" (kind "var_dim"),      *)
(* "unlimited" + str(n), "dim" + str(n), or "dim_empty"; no catalog        *)
(* variable is itself called unlimited<n>, dim<n> or <v>_dim.  A python    *)
(* dict that the code scans in insertion order (the two registries,        *)
(* depend_dimensions, label_variables) is a sequence of key/value pairs.   *)
(***************************************************************************)
EXTENDS Integers, Sequences, FiniteSets, TLC

\* ------------------------------------------------------------------ bounds
\* Last_Rec ranges over -1 .. MaxLastRec (-1: no record written).
MaxLastRec == 1
\* A declared dimension size ranges over 1 .. MaxDimSize.
MaxDimSize == 2
\* A call's data holds at most MaxElems elements.
MaxElems == 2

\* The names of a catalog's variables, in catalog (dict insertion) order.
TwoVariables == <<"a", "b">>
ThreeVariables == <<"a", "b", "c">>
Range(order) == {order[k] : k \in DOMAIN order}
\* ------------------------------------------------------- python dictionaries
\* d[key] = value on an insertion-ordered dict: an existing key keeps its place.
DictPut(d, key, value) ==
    IF \E j \in DOMAIN d : d[j].k = key
    THEN [j \in DOMAIN d |-> IF d[j].k = key THEN [k |-> key, v |-> value] ELSE d[j]]
    ELSE Append(d, [k |-> key, v |-> value])

DictKeys(d) == {d[j].k : j \in DOMAIN d}

DictGet(d, key) == d[CHOOSE j \in DOMAIN d : d[j].k = key].v

\* dict.update(extra) on an attribute mapping (a function from keys to values).
AttsUpdate(atts, extra) ==
    [key \in (DOMAIN atts) \cup (DOMAIN extra) |->
        IF key \in DOMAIN extra THEN extra[key] ELSE atts[key]]

EmptyAtts == [key \in {} |-> ""]

\* ---------------------------------------------------------- dimension names
VarDim(v) == [kind |-> "var", of |-> v, n |-> 0]
VarDimSuffixed(v) == [kind |-> "var_dim", of |-> v, n |-> 0]
UnlimitedDim(n) == [kind |-> "unlimited", of |-> "", n |-> n]
RegularDim(n) == [kind |-> "dim", of |-> "", n |-> n]
DimEmpty == [kind |-> "dim_empty", of |-> "", n |-> 0]
\* The None that _determine_record_dimensions returns for "no record dimension".
NoDim == [kind |-> "none", of |-> "", n |-> 0]

\* -------------------------------------------------------- attribute keys
\* x.startswith("DEPEND_") holds of DEPEND_<digit> and of DEPEND_TIME.
DependKeys == {"DEPEND_0", "DEPEND_1", "DEPEND_2", "DEPEND_TIME"}
\* x.startswith("LABL_PTR_"), in the order the model scans them.
LabelKeys == <<"LABL_PTR_1", "LABL_PTR_2">>
\* 'DEPEND_' + str(i)
DependKey(i) ==
    CASE i = 0 -> "DEPEND_0"
      [] i = 1 -> "DEPEND_1"
      [] i = 2 -> "DEPEND_2"
      [] OTHER -> "DEPEND_n"
\* int(lab[-1])
LabelAxis(lab) == IF lab = "LABL_PTR_1" THEN 1 ELSE 2

ISTP_TO_XARRAY_ATTRS ==
    [FIELDNAM |-> "standard_name", LABLAXIS |-> "long_name", UNITS |-> "units"]

FindXarrayPlottingValues(var_att_dict) ==
    LET hit == (DOMAIN var_att_dict) \cap (DOMAIN ISTP_TO_XARRAY_ATTRS)
    IN  [key \in {ISTP_TO_XARRAY_ATTRS[h] : h \in hit} |->
            var_att_dict[CHOOSE h \in hit : ISTP_TO_XARRAY_ATTRS[h] = key]]

\* ------------------------------------------------------------- diagnostics
\* One print(...) of a warning: which message, about which variable.
Diag(msg, var_name) == [msg |-> msg, var |-> var_name]

\* ------------------------------------------------------ record dimensions
\* "Check if this variable is itself the dimension": the two returns of
\* var_name under the test on depend_variables.
SelfIsRecordDimension(var_name, var_props, depend_variables) ==
    /\ var_name \in depend_variables
    /\ (Len(var_props.Dim_Sizes) = 0 \/ var_props.Last_Rec >= 0)
    /\ \/ ~(Len(var_props.Dim_Sizes) > 0 /\ var_props.Last_Rec > 0)
       \/ \A i \in DOMAIN var_props.Dim_Sizes : ~var_props.Dim_Vary[i]

\* var_atts[key] names no catalog variable: the warning branch.
DependTargetMissing(key, var_atts, all_variable_properties) ==
    /\ key \in DOMAIN var_atts
    /\ var_atts[key] \notin DOMAIN all_variable_properties

\* var_atts[key] names a catalog variable whose data is as long as var_data.
DependLengthMatches(key, var_atts, var_data, all_variable_data, all_variable_properties) ==
    /\ key \in DOMAIN var_atts
    /\ var_atts[key] \in DOMAIN all_variable_properties
    /\ all_variable_data[var_atts[key]].len = var_data.len

\* The first entry of a registry, in insertion order, whose value is `size`.
FirstWithSize(registry, size) ==
    CHOOSE j \in DOMAIN registry :
        /\ registry[j].v = size
        /\ \A m \in 1..(j - 1) : registry[m].v # size

HasSize(registry, size) == \E j \in DOMAIN registry : registry[j].v = size

\* A scan of created_unlimited_dims that finds nothing.
UnlimitedScanNever(created_unlimited_dims, var_data) == FALSE

\* "for udim in created_unlimited_dims: if len(var_data) == created_unlimited_dims[udim]"
\* finds an entry.
UnlimitedScanHits(created_unlimited_dims, var_data) ==
    HasSize(created_unlimited_dims, var_data.len)

\* A scan of created_regular_dims that finds nothing.
RegularScanNever(created_regular_dims, dim_size) == FALSE

\* "for dim in created_regular_dims: if dim_size == created_regular_dims[dim]" finds
\* an entry.
RegularScanHits(created_regular_dims, dim_size) == HasSize(created_regular_dims, dim_size)

\* A guard that lets in every record-varying variable with a record.
RecordDimensionAppliesWithRecords(var_props) == var_props.Rec_Vary /\ var_props.Last_Rec >= 0

\* The guard of the record-dimension algorithm.
RecordDimensionApplies(var_props) == var_props.Rec_Vary /\ var_props.Last_Rec # 0

\* A second variable's "is record-varying with records" test, used for the _dim suffix.
RecordVaryingWithRecords(props) == props.Rec_Vary /\ props.Last_Rec # 0

RecRet(name, dependency, newly_created, warn) ==
    [name |-> name, dependency |-> dependency, newly_created |-> newly_created, warn |-> warn]

DetermineRecordDimensions(var_name, var_atts, var_data, var_props, depend_variables, all_variable_data, all_variable_properties, created_unlimited_dims) ==
    IF RecordDimensionApplies(var_props)
    THEN
      IF SelfIsRecordDimension(var_name, var_props, depend_variables)
      THEN RecRet(VarDim(var_name), TRUE, FALSE, {})
      ELSE
        LET w0 == IF DependTargetMissing("DEPEND_0", var_atts, all_variable_properties)
                  THEN {Diag("DEPEND_0 not found", var_name)} ELSE {}
        IN
        IF DependLengthMatches("DEPEND_0", var_atts, var_data, all_variable_data,
                               all_variable_properties)
        THEN RecRet(VarDim(var_atts["DEPEND_0"]), TRUE, FALSE, w0)
        ELSE
          LET wt == IF DependTargetMissing("DEPEND_TIME", var_atts, all_variable_properties)
                    THEN w0 \cup {Diag("DEPEND_TIME not found", var_name)} ELSE w0
          IN
          IF DependLengthMatches("DEPEND_TIME", var_atts, var_data, all_variable_data,
                                 all_variable_properties)
          THEN RecRet(VarDim(var_atts["DEPEND_TIME"]), TRUE, FALSE, wt)
          ELSE
            IF UnlimitedScanHits(created_unlimited_dims, var_data)
            THEN RecRet(created_unlimited_dims[
                            FirstWithSize(created_unlimited_dims, var_data.len)].k,
                        FALSE, FALSE, wt)
            ELSE RecRet(UnlimitedDim(Len(created_unlimited_dims)), FALSE, TRUE, wt)
    ELSE RecRet(NoDim, FALSE, FALSE, {})

\* ----------------------------------------------------- regular dimensions
\* One appended tuple (name, size, dependency, newly_created) of return_list.
Binding(name, size, dependency, newly_created) ==
    [name |-> name, size |-> size, dependency |-> dependency, newly_created |-> newly_created]

\* The name a dimension takes from the variable d that defines it.
NameAfter(d, all_variable_properties) ==
    IF RecordVaryingWithRecords(all_variable_properties[d])
    THEN VarDimSuffixed(d) ELSE VarDim(d)

\* DEPEND_<i> of var_atts names a catalog variable with matching leading size
\* and non-empty data: the two appends under "already defined within the
\* attribute section".
DependAxisMatches(i, var_atts, var_props, all_variable_data, all_variable_properties) ==
    /\ DependKey(i) \in DOMAIN var_atts
    /\ var_atts[DependKey(i)] \in DOMAIN all_variable_properties
    /\ Len(all_variable_properties[var_atts[DependKey(i)]].Dim_Sizes) # 0
    /\ all_variable_properties[var_atts[DependKey(i)]].Dim_Sizes[1] = var_props.Dim_Sizes[i]
    /\ all_variable_data[var_atts[DependKey(i)]].size # 0

\* The warnings printed on the way through the DEPEND_<i> block.
DependAxisWarnings(i, var_name, var_atts, var_props, all_variable_data, all_variable_properties) ==
    IF DependKey(i) \notin DOMAIN var_atts THEN {}
    ELSE IF var_atts[DependKey(i)] \notin DOMAIN all_variable_properties
    THEN {Diag("DEPEND_i not found", var_name)}
    ELSE IF /\ Len(all_variable_properties[var_atts[DependKey(i)]].Dim_Sizes) # 0
            /\ all_variable_properties[var_atts[DependKey(i)]].Dim_Sizes[1]
                   = var_props.Dim_Sizes[i]
    THEN IF all_variable_data[var_atts[DependKey(i)]].size = 0
         THEN {Diag("DEPEND_i is empty", var_name)} ELSE {}
    ELSE {Diag("DEPEND_i dimensions do not match", var_name)}

\* Whether the loop body skips the axis: "if not var_props['Dim_Vary'][i]: continue",
\* i being the count of axes named so far (python index i is position i + 1 here).
AxisSkipped(i, var_props) == ~var_props.Dim_Vary[i + 1]

\* The loop "for dim_size in var_props['Dim_Sizes']" from its k-th iteration on:
\* i is the loop's counter, acc its return_list, created_regular_dims and warnings
\* so far.
RECURSIVE DimensionNamesFrom(_, _, _, _, _, _, _, _, _)
DimensionNamesFrom(k, i, acc, var_name, var_atts, var_props, depend_variables, all_variable_data, all_variable_properties) ==
    IF k > Len(var_props.Dim_Sizes) THEN acc
    ELSE IF AxisSkipped(i, var_props)
    THEN DimensionNamesFrom(k + 1, i, acc, var_name, var_atts, var_props, depend_variables,
                            all_variable_data, all_variable_properties)
    ELSE
      LET dim_size == var_props.Dim_Sizes[k]
          j == i + 1
          warn == acc.warn \cup DependAxisWarnings(j, var_name, var_atts, var_props,
                                                   all_variable_data, all_variable_properties)
          next ==
            IF DependAxisMatches(j, var_atts, var_props, all_variable_data,
                                 all_variable_properties)
            THEN [list |-> Append(acc.list,
                        Binding(NameAfter(var_atts[DependKey(j)], all_variable_properties),
                                dim_size, TRUE, FALSE)),
                  regular |-> acc.regular, warn |-> warn]
            ELSE IF var_name \in depend_variables
            THEN [list |-> Append(acc.list,
                        Binding(NameAfter(var_name, all_variable_properties),
                                dim_size, TRUE, FALSE)),
                  regular |-> acc.regular, warn |-> warn]
            ELSE IF RegularScanHits(acc.regular, dim_size)
            THEN [list |-> Append(acc.list,
                        Binding(acc.regular[FirstWithSize(acc.regular, dim_size)].k,
                                dim_size, TRUE, FALSE)),
                  regular |-> acc.regular, warn |-> warn]
            ELSE [list |-> Append(acc.list,
                        Binding(RegularDim(Len(acc.regular)), dim_size, FALSE, TRUE)),
                  regular |-> DictPut(acc.regular, RegularDim(Len(acc.regular)), dim_size),
                  warn |-> warn]
      IN  DimensionNamesFrom(k + 1, j, next, var_name, var_atts, var_props, depend_variables,
                             all_variable_data, all_variable_properties)

\* Returns return_list (list), created_regular_dims as the call leaves it
\* (regular: the dict is mutated in place) and the warnings printed (warn).
DetermineDimensionNames(var_name, var_atts, var_props, depend_variables, all_variable_data, all_variable_properties, created_regular_dims) ==
    IF Len(var_props.Dim_Sizes) # 0 /\ var_props.Last_Rec >= 0
    THEN DimensionNamesFrom(1, 0, [list |-> <<>>, regular |-> created_regular_dims, warn |-> {}],
                            var_name, var_atts, var_props, depend_variables,
                            all_variable_data, all_variable_properties)
    ELSE [list |-> <<>>, regular |-> created_regular_dims, warn |-> {}]

\* ------------------------------------------------ relationship discovery
DiscoverDependVariables(varatts) ==
    UNION {{varatts[v][d] : d \in DependKeys \cap DOMAIN varatts[v]} : v \in DOMAIN varatts}

\* The dict of _discover_uncertainty_variables after the variables order[1..k].
RECURSIVE UncertaintyUpTo(_, _, _)
UncertaintyUpTo(k, order, varatts) ==
    IF k = 0 THEN <<>>
    ELSE LET v == order[k]
             before == UncertaintyUpTo(k - 1, order, varatts)
             plus == IF "DELTA_PLUS_VAR" \in DOMAIN varatts[v]
                     THEN DictPut(before, varatts[v]["DELTA_PLUS_VAR"], v) ELSE before
         IN  IF "DELTA_MINUS_VAR" \in DOMAIN varatts[v]
             THEN DictPut(plus, varatts[v]["DELTA_MINUS_VAR"], v) ELSE plus

DiscoverUncertaintyVariables(order, varatts) == UncertaintyUpTo(Len(order), order, varatts)

\* The (variable, LABL_PTR key) pairs in the order of the two nested loops.
LabelPairs(order) ==
    [p \in 1..(Len(order) * Len(LabelKeys)) |->
        [v |-> order[((p - 1) \div Len(LabelKeys)) + 1],
         lab |-> LabelKeys[((p - 1) % Len(LabelKeys)) + 1]]]

\* all_variable_properties[depend_var_name] raises KeyError.
LabelKeyError(depend_var_name, all_variable_properties) ==
    depend_var_name \notin DOMAIN all_variable_properties

\* all_variable_properties[v]["Dim_Sizes"][int(lab[-1])-1] raises IndexError; python
\* evaluates it only when the dependency's Dim_Sizes is non-empty.
LabelIndexError(v, lab, depend_var_name, all_variable_properties) ==
    /\ Len(all_variable_properties[depend_var_name].Dim_Sizes) # 0
    /\ LabelAxis(lab) > Len(all_variable_properties[v].Dim_Sizes)

\* The test that lets a label through to registration: the dependency has a
\* shape, its leading size is v's size on the label's axis, its data is not empty.
LabelShapeMatches(v, lab, depend_var_name, all_variable_properties, all_variable_data) ==
    /\ Len(all_variable_properties[depend_var_name].Dim_Sizes) # 0
    /\ all_variable_properties[depend_var_name].Dim_Sizes[1]
           = all_variable_properties[v].Dim_Sizes[LabelAxis(lab)]
    /\ all_variable_data[depend_var_name].size # 0

\* One pass of the inner loop body for the pair (v, lab); st carries the dict
\* being built (labels), varatts as mutated so far (atts), the warnings (warn)
\* and whether an exception has been raised (err).
DiscoverLabelStep(st, v, lab, all_variable_properties, all_variable_data) ==
    IF st.err \/ lab \notin DOMAIN st.atts[v] THEN st
    ELSE IF DependKey(LabelAxis(lab)) \notin DOMAIN st.atts[v] THEN st
    ELSE
      LET depend_var_name == st.atts[v][DependKey(LabelAxis(lab))]
          target == st.atts[v][lab]
      IN
      IF LabelKeyError(depend_var_name, all_variable_properties)
      THEN [st EXCEPT !.err = TRUE]
      ELSE IF LabelIndexError(v, lab, depend_var_name, all_variable_properties)
      THEN [st EXCEPT !.err = TRUE]
      ELSE IF ~LabelShapeMatches(v, lab, depend_var_name, all_variable_properties,
                                 all_variable_data)
      THEN st
      ELSE IF target \notin DOMAIN st.atts
      THEN [st EXCEPT !.warn = @ \cup {Diag("label does not exist", v)},
                      !.atts[v] = AttsUpdate(@, [LABLAXIS |-> target, long_name |-> target])]
      ELSE [st EXCEPT !.labels = DictPut(@, target, depend_var_name)]

RECURSIVE DiscoverLabelsUpTo(_, _, _, _, _)
DiscoverLabelsUpTo(p, order, varatts, all_variable_properties, all_variable_data) ==
    IF p = 0 THEN [labels |-> <<>>, atts |-> varatts, warn |-> {}, err |-> FALSE]
    ELSE DiscoverLabelStep(
             DiscoverLabelsUpTo(p - 1, order, varatts, all_variable_properties,
                                all_variable_data),
             LabelPairs(order)[p].v, LabelPairs(order)[p].lab,
             all_variable_properties, all_variable_data)

\* order is the iteration order of varatts.
DiscoverLabelVariables(order, varatts, all_variable_properties, all_variable_data) ==
    DiscoverLabelsUpTo(Len(LabelPairs(order)), order, varatts, all_variable_properties,
                       all_variable_data)

\* ----------------------------------------------------------- assembly
\* _reformat_variable_dims_and_data, on the dimension names.
ReformatVariableDims(var_dims, var_data) ==
    IF var_data.size = 0 /\ Len(var_dims) = 0 THEN <<DimEmpty>> ELSE var_dims

\* "if record_dim_name:" -- None and the empty string are false.
Truthy(name) == name # NoDim /\ ~(name.kind = "var" /\ name.of = "")

\* depend_dimensions after the loop over returned_dimension_info, from entry k on.
RECURSIVE DependDimensionsFrom(_, _, _)
DependDimensionsFrom(k, list, dd) ==
    IF k > Len(list) THEN dd
    ELSE DependDimensionsFrom(k + 1, list,
             IF Truthy(list[k].name) /\ list[k].dependency
             THEN DictPut(dd, list[k].name, list[k].size) ELSE dd)

\* created_regular_dims after the same loop.
RECURSIVE RegularDimsFrom(_, _, _)
RegularDimsFrom(k, list, regs) ==
    IF k > Len(list) THEN regs
    ELSE RegularDimsFrom(k + 1, list,
             IF Truthy(list[k].name) /\ list[k].newly_created
             THEN DictPut(regs, list[k].name, list[k].size) ELSE regs)

\* var_dims after the same loop.
RECURSIVE DimsFrom(_, _, _)
DimsFrom(k, list, var_dims) ==
    IF k > Len(list) THEN var_dims
    ELSE DimsFrom(k + 1, list,
             IF Truthy(list[k].name) THEN Append(var_dims, list[k].name) ELSE var_dims)

\* -------------------------------------------------------- classification
\* The loop "for lab in label_variables" for the coordinate var_name, from the
\* k-th entry of label_variables on.  st carries created_vars (vars),
\* created_coord_vars (coords), the warnings and whether dims[-1] of an empty
\* tuple has raised IndexError (err).
RECURSIVE AttachLabelsFrom(_, _, _, _)
AttachLabelsFrom(k, labels, var_name, st) ==
    IF k > Len(labels) \/ st.err THEN st
    ELSE IF labels[k].v # var_name THEN AttachLabelsFrom(k + 1, labels, var_name, st)
    ELSE
      LET lab == labels[k].k
          lab_dims == st.vars[lab].dims
          var_dims == st.vars[var_name].dims
          next ==
            IF Len(lab_dims) = Len(var_dims)
            THEN IF st.vars[lab].size # st.vars[var_name].size
                 THEN [st EXCEPT !.warn = @ \cup {Diag("label size mismatch", lab)},
                                 !.coords = @ \cup {lab}]
                 ELSE [st EXCEPT !.vars[lab].dims = var_dims, !.coords = @ \cup {lab}]
            ELSE IF Len(var_dims) = 0
            THEN [st EXCEPT !.err = TRUE]
            ELSE [st EXCEPT !.vars[lab].dims = <<var_dims[Len(var_dims)]>>,
                            !.coords = @ \cup {lab}]
      IN  AttachLabelsFrom(k + 1, labels, var_name, next)

\* (var_name in depend_dimensions) or (var_name + '_dim' in depend_dimensions)
IsDependDimension(var_name, dd) ==
    VarDim(var_name) \in DictKeys(dd) \/ VarDimSuffixed(var_name) \in DictKeys(dd)

\* ------------------------------------------------------ value normalizer
\* A data element: a number as the file holds it ("raw"), or what a conversion
\* made of it; a text; the missing value.
Raw(n) == [as |-> "raw", of |-> n]
NaN == [as |-> "nan", of |-> 0]
TextValue == [as |-> "text", of |-> 0]
UnitsDatetime == [as |-> "Datetime (UTC)", of |-> 0]
UnitsSeconds == [as |-> "seconds", of |-> 0]

\* cdfepoch.unixtime, cdfepoch.to_datetime and cdfepoch.compute(breakdown(.)[0:7]):
\* elementwise, each to a value of its own kind.
EpochToUnixtime(values) == [k \in DOMAIN values |-> [as |-> "unixtime", of |-> values[k].of]]
EpochToDatetime(values) == [k \in DOMAIN values |-> [as |-> "datetime", of |-> values[k].of]]
Epoch16Narrow(values) == [k \in DOMAIN values |-> [as |-> "epoch", of |-> values[k].of]]

TimeTypes == {"CDF_EPOCH", "CDF_EPOCH16", "CDF_TIME_TT2000"}

\* to_datetime left as it was passed.
EffectiveToDatetimeKept(to_datetime, to_unixtime) == to_datetime

\* to_datetime after "if to_datetime and to_unixtime: ... to_datetime = False".
EffectiveToDatetime(to_datetime, to_unixtime) == to_datetime /\ ~to_unixtime

\* The conversion of one list of values declared as data_type, under the flags.
ConvertTimeValues(values, data_type, to_datetime, to_unixtime) ==
    IF Len(values) = 0 \/ data_type \notin TimeTypes THEN values
    ELSE IF to_datetime THEN EpochToDatetime(values)
    ELSE IF to_unixtime THEN EpochToUnixtime(values)
    ELSE IF data_type = "CDF_EPOCH16" THEN Epoch16Narrow(values)
    ELSE values

\* atts after "atts['UNITS']['Data'] = ..." : rewritten when the variable's own
\* data is converted.
RewriteUnits(atts, values, data_type, to_datetime, to_unixtime) ==
    IF Len(values) = 0 \/ data_type \notin TimeTypes \/ "UNITS" \notin DOMAIN atts THEN atts
    ELSE IF to_datetime THEN [atts EXCEPT !["UNITS"].Data = <<UnitsDatetime>>]
    ELSE IF to_unixtime THEN [atts EXCEPT !["UNITS"].Data = <<UnitsSeconds>>]
    ELSE atts

\* data and every attribute's Data are lists here: a value without __len__ is
\* wrapped as [value] before it is used, so it arrives as a list of one.
ConvertCdfTimeTypes(data, atts, properties, to_datetime, to_unixtime) ==
    LET dt == EffectiveToDatetime(to_datetime, to_unixtime)
        data_type == properties.Data_Type_Description
        rewritten == RewriteUnits(atts, data, data_type, dt, to_unixtime)
    IN  [new_data |-> ConvertTimeValues(data, data_type, dt, to_unixtime),
         new_atts |-> [att \in DOMAIN rewritten |->
                          ConvertTimeValues(rewritten[att].Data, rewritten[att].Data_Type,
                                            dt, to_unixtime)],
         atts |-> rewritten,
         warned |-> to_datetime /\ to_unixtime]

\* The declared types whose fill values are replaced.
FillTypes == {"CDF_FLOAT", "CDF_REAL4", "CDF_DOUBLE", "CDF_REAL8",
              "CDF_TIME_TT2000", "CDF_EPOCH", "CDF_EPOCH16"}

\* var_data is [ndim, values]: the array's rank and its elements; var_atts maps
\* FILLVAL to a list of one value.  An empty array's comparison is false.
ConvertFillvalsToNan(var_data, var_atts, var_properties) ==
    IF "FILLVAL" \in DOMAIN var_atts /\ var_properties.Data_Type_Description \in FillTypes
    THEN IF Len(var_data.values) > 1
         THEN [var_data EXCEPT !.values =
                  [k \in DOMAIN var_data.values |->
                      IF var_data.values[k] = var_atts["FILLVAL"][1] THEN NaN
                      ELSE var_data.values[k]]]
         ELSE IF Len(var_data.values) = 1 /\ var_data.values[1] = var_atts["FILLVAL"][1]
         THEN [ndim |-> 0, values |-> <<NaN>>]
         ELSE var_data
    ELSE var_data

\* ------------------------------------------------------------ the catalog
\* The data the catalog adapter holds for a variable: no record, an empty
\* array; else one leading entry per record, each of the declared shape.
RECURSIVE Product(_)
Product(sizes) == IF Len(sizes) = 0 THEN 1 ELSE Head(sizes) * Product(Tail(sizes))

DataOf(props) ==
    IF props.Last_Rec < 0 THEN [len |-> 0, size |-> 0]
    ELSE [len |-> props.Last_Rec + 1, size |-> (props.Last_Rec + 1) * Product(props.Dim_Sizes)]

VARIABLES
    catalog_order,            \* the catalog's variable names, in dict order
    call,                     \* the arguments of a value-normalizer call
    ret,                      \* what that call returned
    all_variable_attributes,  \* name -> attribute mapping
    all_variable_data,        \* name -> [len, size]
    all_variable_properties,  \* name -> [Rec_Vary, Last_Rec, Dim_Sizes, Dim_Vary]
    built_attributes,         \* all_variable_attributes as _convert_cdf_to_dicts returned it
    pc,                       \* where cdf_to_xarray is
    i,                        \* the running loop's position in catalog_order
    depend_variables,
    created_unlimited_dims,
    created_regular_dims,
    depend_dimensions,
    created_vars,             \* name -> [dims, size] of the xr.Variable
    returned,                 \* name -> what the two resolution calls returned for it
    label_variables,
    uncertainty_variables,
    created_coord_vars,
    created_data_vars,
    diagnostics               \* the warnings printed so far

catalogVars == <<catalog_order, call, ret, all_variable_data, all_variable_properties,
                 built_attributes>>
NumVars == Len(catalog_order)
passVars == <<depend_variables, created_unlimited_dims, created_regular_dims,
              depend_dimensions, created_vars, returned>>
classVars == <<label_variables, uncertainty_variables, created_coord_vars, created_data_vars>>
vars == <<all_variable_attributes, catalogVars, pc, i, passVars, classVars, diagnostics>>

EmptyFn == [x \in {} |-> 0]

NoCall == [fn |-> "none"]

\* The state cdf_to_xarray is in when _convert_cdf_to_dicts has returned the
\* catalog (props, atts) of the variables `order`.
CatalogBuilt(order, props, atts) ==
    /\ catalog_order = order
    /\ call = NoCall
    /\ ret = NoCall
    /\ all_variable_properties = props
    /\ all_variable_attributes = atts
    /\ built_attributes = atts
    /\ all_variable_data = [v \in Range(order) |-> DataOf(props[v])]
    /\ pc = "catalog"
    /\ i = 0
    /\ depend_variables = {}
    /\ created_unlimited_dims = <<>>
    /\ created_regular_dims = <<>>
    /\ depend_dimensions = <<>>
    /\ created_vars = EmptyFn
    /\ returned = EmptyFn
    /\ label_variables = <<>>
    /\ uncertainty_variables = <<>>
    /\ created_coord_vars = {}
    /\ created_data_vars = {}
    /\ diagnostics = {}

\* The first statements of _generate_xarray_data_variables.
BeginGenerate ==
    /\ pc = "catalog"
    /\ pc' = "generate"
    /\ i' = 1
    /\ depend_variables' = DiscoverDependVariables(all_variable_attributes)
    /\ created_unlimited_dims' = <<>>
    /\ created_regular_dims' = <<>>
    /\ depend_dimensions' = <<>>
    /\ created_vars' = EmptyFn
    /\ UNCHANGED <<all_variable_attributes, catalogVars, returned, classVars, diagnostics>>

\* One iteration of "for var_name in all_variable_data".
GenerateVar ==
    /\ pc = "generate"
    /\ i <= NumVars
    /\ LET var_name == catalog_order[i]
           var_atts == all_variable_attributes[var_name]
           var_data == all_variable_data[var_name]
           var_props == all_variable_properties[var_name]
           rec == DetermineRecordDimensions(var_name, var_atts, var_data, var_props,
                      depend_variables, all_variable_data, all_variable_properties,
                      created_unlimited_dims)
           info == DetermineDimensionNames(var_name, var_atts, var_props, depend_variables,
                      all_variable_data, all_variable_properties, created_regular_dims)
           dims0 == IF Truthy(rec.name) THEN <<rec.name>> ELSE <<>>
           dd0 == IF Truthy(rec.name) /\ rec.dependency
                  THEN DictPut(depend_dimensions, rec.name, var_data.len)
                  ELSE depend_dimensions
           var_dims == ReformatVariableDims(DimsFrom(1, info.list, dims0), var_data)
       IN  /\ created_unlimited_dims' =
                 IF Truthy(rec.name) /\ rec.newly_created
                 THEN DictPut(created_unlimited_dims, rec.name, var_data.len)
                 ELSE created_unlimited_dims
           /\ created_regular_dims' = RegularDimsFrom(1, info.list, info.regular)
           /\ depend_dimensions' = DependDimensionsFrom(1, info.list, dd0)
           /\ all_variable_attributes' =
                 [all_variable_attributes EXCEPT
                     ![var_name] = AttsUpdate(var_atts, FindXarrayPlottingValues(var_atts))]
           /\ created_vars' =
                 created_vars @@ (var_name :> [dims |-> var_dims, size |-> var_data.size])
           /\ returned' =
                 returned @@ (var_name :> [record_dim_name |-> rec.name,
                                           dependency |-> rec.dependency,
                                           newly_created |-> rec.newly_created,
                                           dimension_info |-> info.list])
           /\ diagnostics' = diagnostics \cup rec.warn \cup info.warn
    /\ i' = i + 1
    /\ UNCHANGED <<catalogVars, pc, depend_variables, classVars>>

\* _discover_label_variables and _discover_uncertainty_variables, after the
\* resolution pass has returned.
DiscoverRelationships ==
    /\ pc = "generate"
    /\ i > NumVars
    /\ LET r == DiscoverLabelVariables(catalog_order, all_variable_attributes,
                                       all_variable_properties, all_variable_data)
       IN  /\ all_variable_attributes' = r.atts
           /\ diagnostics' = diagnostics \cup r.warn
           /\ IF r.err
              THEN /\ pc' = "error"
                   /\ UNCHANGED <<i, classVars>>
              ELSE /\ pc' = "classify"
                   /\ i' = 1
                   /\ label_variables' = r.labels
                   /\ uncertainty_variables' = DiscoverUncertaintyVariables(catalog_order, r.atts)
                   /\ created_coord_vars' = {}
                   /\ created_data_vars' = {}
    /\ UNCHANGED <<catalogVars, passVars>>

\* One iteration of "for var_name in created_vars".
ClassifyVar ==
    /\ pc = "classify"
    /\ i <= NumVars
    /\ LET var_name == catalog_order[i]
       IN  IF var_name \in DictKeys(label_variables)
           THEN /\ i' = i + 1
                /\ UNCHANGED <<pc, created_vars, created_coord_vars, created_data_vars,
                               diagnostics>>
           ELSE IF IsDependDimension(var_name, depend_dimensions)
           THEN LET st == AttachLabelsFrom(1, label_variables, var_name,
                              [vars |-> created_vars,
                               coords |-> created_coord_vars \cup {var_name},
                               warn |-> diagnostics, err |-> FALSE])
                IN  /\ created_vars' = st.vars
                    /\ created_coord_vars' = st.coords
                    /\ diagnostics' = st.warn
                    /\ pc' = IF st.err THEN "error" ELSE pc
                    /\ i' = IF st.err THEN i ELSE i + 1
                    /\ UNCHANGED created_data_vars
           ELSE IF var_name \in DictKeys(uncertainty_variables)
           THEN LET parent == DictGet(uncertainty_variables, var_name)
                IN  IF created_vars[var_name].size = created_vars[parent].size
                    THEN /\ created_vars' =
                              [created_vars EXCEPT ![var_name].dims = created_vars[parent].dims]
                         /\ created_coord_vars' = created_coord_vars \cup {var_name}
                         /\ i' = i + 1
                         /\ UNCHANGED <<pc, created_data_vars, diagnostics>>
                    ELSE /\ created_data_vars' = created_data_vars \cup {var_name}
                         /\ i' = i + 1
                         /\ UNCHANGED <<pc, created_vars, created_coord_vars, diagnostics>>
           ELSE /\ created_data_vars' = created_data_vars \cup {var_name}
                /\ i' = i + 1
                /\ UNCHANGED <<pc, created_vars, created_coord_vars, diagnostics>>
    /\ UNCHANGED <<all_variable_attributes, catalogVars, depend_variables,
                   created_unlimited_dims, created_regular_dims, depend_dimensions,
                   returned, label_variables, uncertainty_variables>>

\* xr.Dataset(data_vars=created_data_vars, coords=created_coord_vars, ...)
BuildDataset ==
    /\ pc = "classify"
    /\ i > NumVars
    /\ pc' = "done"
    /\ UNCHANGED <<all_variable_attributes, catalogVars, i, passVars, classVars, diagnostics>>

Next == BeginGenerate \/ GenerateVar \/ DiscoverRelationships \/ ClassifyVar \/ BuildDataset

\* ------------------------------------------------------------- catalogs
\* The shapes a variable declares: no axis, or one axis of some size that
\* varies or not.
Shapes ==
    {[Dim_Sizes |-> <<>>, Dim_Vary |-> <<>>]}
    \cup {[Dim_Sizes |-> <<s>>, Dim_Vary |-> <<f>>] : s \in 1..MaxDimSize, f \in BOOLEAN}

\* A variable that does not vary by record holds at most one record
\* (Last_Rec is -1 or 0); a record-varying one holds any number.
PropsChoices ==
    {p \in [Rec_Vary : BOOLEAN, Last_Rec : -1..MaxLastRec,
            Dim_Sizes : {sh.Dim_Sizes : sh \in Shapes},
            Dim_Vary : {sh.Dim_Vary : sh \in Shapes}] :
        /\ Len(p.Dim_Sizes) = Len(p.Dim_Vary)
        /\ (~p.Rec_Vary => p.Last_Rec <= 0)}

\* A variable name that no catalog variable has.
Missing == "Foo"

AttValues(names, key) == IF key = "FIELDNAM" THEN {"Flux"} ELSE names \cup {Missing}

\* The attribute mappings of one variable over at most `most` of `keys`.
AttsOver(names, keys, most) ==
    {f \in UNION {[S -> names \cup {Missing, "Flux"}] :
                     S \in {T \in SUBSET keys : Cardinality(T) <= most}} :
        \A key \in DOMAIN f : f[key] \in AttValues(names, key)}

RECURSIVE SumCard(_, _, _)
SumCard(atts, order, k) ==
    IF k = 0 THEN 0
    ELSE Cardinality(DOMAIN atts[order[k]]) + SumCard(atts, order, k - 1)

\* The catalogs' attributes over `keys`: at most one attribute per variable on
\* average.
AttCatalogs(order, keys) ==
    {a \in [Range(order) -> AttsOver(Range(order), keys, Len(order))] :
        SumCard(a, order, Len(order)) <= Len(order)}

\* The attributes that relate variables, and one that gets a plotting alias.
RelationKeys == {"DEPEND_0", "DEPEND_1", "LABL_PTR_1", "DELTA_PLUS_VAR", "FIELDNAM"}
RelationCatalogs == AttCatalogs(TwoVariables, RelationKeys)

\* The attributes that dimension resolution reads.
ResolutionKeys == {"DEPEND_0", "DEPEND_1", "DEPEND_TIME"}
ResolutionCatalogs == AttCatalogs(TwoVariables, ResolutionKeys)

PropsCatalogs == [Range(TwoVariables) -> PropsChoices]

\* The catalogs in which one variable names its record dimension, an axis and
\* a label, and the other may name its record dimension.
LabelledKeys == {"DEPEND_0", "DEPEND_1", "LABL_PTR_1"}
LabelledCatalogs ==
    {a \in [Range(TwoVariables) -> AttsOver(Range(TwoVariables), LabelledKeys, 3)] :
        \E v \in Range(TwoVariables) :
            /\ DOMAIN a[v] = LabelledKeys
            /\ \A w \in Range(TwoVariables) \ {v} : DOMAIN a[w] \subseteq {"DEPEND_0"}}

\* cdf_to_xarray on the catalogs whose attributes relate variables.
Init ==
    \E atts \in RelationCatalogs \cup LabelledCatalogs :
        \E props \in PropsCatalogs :
            CatalogBuilt(TwoVariables, props, atts)

\* The catalogs of three variables without axes of their own, each of which
\* may name its record dimension.
ScalarCatalogs == AttCatalogs(ThreeVariables, {"DEPEND_0"})
ScalarPropsCatalogs == [Range(ThreeVariables) -> {p \in PropsChoices : p.Dim_Sizes = <<>>}]

\* cdf_to_xarray on the catalogs whose attributes name dimensions.
InitResolve ==
    \/ \E atts \in ResolutionCatalogs :
          \E props \in PropsCatalogs :
              CatalogBuilt(TwoVariables, props, atts)
    \/ \E atts \in ScalarCatalogs :
          \E props \in ScalarPropsCatalogs :
              CatalogBuilt(ThreeVariables, props, atts)

Spec == Init /\ [][Next]_vars

SpecResolve == InitResolve /\ [][Next]_vars

\* The shapes of at most two axes, each of some size, varying or not.
AxisShapes ==
    Shapes \cup {[Dim_Sizes |-> <<s, t>>, Dim_Vary |-> <<f, g>>] :
                    s \in 1..MaxDimSize, t \in 1..MaxDimSize, f \in BOOLEAN, g \in BOOLEAN}

AxisPropsChoices ==
    {p \in [Rec_Vary : BOOLEAN, Last_Rec : -1..MaxLastRec,
            Dim_Sizes : {sh.Dim_Sizes : sh \in AxisShapes},
            Dim_Vary : {sh.Dim_Vary : sh \in AxisShapes}] :
        /\ Len(p.Dim_Sizes) = Len(p.Dim_Vary)
        /\ (~p.Rec_Vary => p.Last_Rec <= 0)}

\* The catalogs in which variable a has up to two axes and may name a variable
\* for each of them, and variable b has at most one axis and may name a for it.
AxisPropsCatalogs ==
    {p \in [Range(TwoVariables) -> AxisPropsChoices] : p["b"] \in PropsChoices}
AxisCatalogs ==
    {a \in [Range(TwoVariables) -> AttsOver(Range(TwoVariables), {"DEPEND_1", "DEPEND_2"}, 2)] :
        \/ a["b"] = EmptyAtts
        \/ DOMAIN a["b"] = {"DEPEND_1"} /\ a["b"]["DEPEND_1"] = "a"}

\* cdf_to_xarray on the catalogs whose variables have several axes.
InitAxes ==
    \E atts \in AxisCatalogs :
        \E props \in AxisPropsCatalogs :
            \E order \in {TwoVariables, <<"b", "a">>} :
                CatalogBuilt(order, props, atts)

SpecAxes == InitAxes /\ [][Next]_vars

\* The catalogs of three record-varying variables without axes of their own,
\* which may name a record dimension and uncertainty companions.
CompanionKeys == {"DEPEND_0", "DELTA_PLUS_VAR", "DELTA_MINUS_VAR"}
CompanionCatalogs == AttCatalogs(ThreeVariables, CompanionKeys)
CompanionPropsCatalogs ==
    [Range(ThreeVariables) -> {p \in PropsChoices : p.Dim_Sizes = <<>> /\ p.Rec_Vary}]

\* cdf_to_xarray on the catalogs whose variables have uncertainty companions.
InitCompanions ==
    \E atts \in CompanionCatalogs :
        \E props \in CompanionPropsCatalogs :
            CatalogBuilt(ThreeVariables, props, atts)

SpecCompanions == InitCompanions /\ [][Next]_vars

\* --------------------------------------------- value normalizer, as called
\* No catalog: the state in which one value-normalizer call `c` is about to run.
CallPending(c) ==
    /\ call = c
    /\ ret = NoCall
    /\ pc = "call"
    /\ catalog_order = <<>>
    /\ all_variable_properties = EmptyFn
    /\ all_variable_attributes = EmptyFn
    /\ built_attributes = EmptyFn
    /\ all_variable_data = EmptyFn
    /\ i = 0
    /\ depend_variables = {}
    /\ created_unlimited_dims = <<>>
    /\ created_regular_dims = <<>>
    /\ depend_dimensions = <<>>
    /\ created_vars = EmptyFn
    /\ returned = EmptyFn
    /\ label_variables = <<>>
    /\ uncertainty_variables = <<>>
    /\ created_coord_vars = {}
    /\ created_data_vars = {}
    /\ diagnostics = {}

valueFrame == <<catalog_order, call, all_variable_attributes, all_variable_data,
                all_variable_properties, built_attributes, i, passVars, classVars,
                diagnostics>>

\* _convert_cdf_to_dicts calls _convert_cdf_time_types for a variable.
ConvertTime ==
    /\ pc = "call"
    /\ call.fn = "_convert_cdf_time_types"
    /\ ret' = ConvertCdfTimeTypes(call.data, call.atts, call.properties,
                                  call.to_datetime, call.to_unixtime)
    /\ pc' = "called"
    /\ UNCHANGED valueFrame

\* "if fillval_to_nan: var_data = _convert_fillvals_to_nan(...)" for a variable.
ConvertFill ==
    /\ pc = "call"
    /\ call.fn = "_convert_fillvals_to_nan"
    /\ ret' = IF call.fillval_to_nan
              THEN ConvertFillvalsToNan(call.var_data, call.var_atts, call.var_props)
              ELSE call.var_data
    /\ pc' = "called"
    /\ UNCHANGED valueFrame

NextValues == ConvertTime \/ ConvertFill

\* The lists of at most MaxElems values over `values`.
ListsOver(values) == UNION {[1..n -> values] : n \in 0..MaxElems}

TimeCalls ==
    {[fn |-> "_convert_cdf_time_types", data |-> d, atts |-> u @@ m,
      properties |-> [Data_Type_Description |-> t],
      to_datetime |-> td, to_unixtime |-> tu] :
        d \in ListsOver({Raw(0), Raw(1)}),
        u \in {EmptyAtts, [UNITS |-> [Data_Type |-> "CDF_CHAR", Data |-> <<TextValue>>]]},
        m \in {EmptyAtts} \cup
              {[VALIDMIN |-> [Data_Type |-> at, Data |-> <<Raw(0)>>]] :
                  at \in TimeTypes \cup {"CDF_DOUBLE"}},
        t \in TimeTypes \cup {"CDF_DOUBLE"},
        td \in BOOLEAN, tu \in BOOLEAN}

\* The numeric and time types a variable of a fill call declares.
DeclaredTypes == FillTypes \cup {"CDF_INT4"}

FillCalls ==
    {[fn |-> "_convert_fillvals_to_nan", var_data |-> [ndim |-> 1, values |-> d],
      var_atts |-> a, var_props |-> [Data_Type_Description |-> t],
      fillval_to_nan |-> f] :
        d \in ListsOver({Raw(0), Raw(1)}),
        a \in {EmptyAtts, [FILLVAL |-> <<Raw(0)>>]},
        t \in DeclaredTypes,
        f \in BOOLEAN}

InitValues == \E c \in TimeCalls \cup FillCalls : CallPending(c)

SpecValues == InitValues /\ [][NextValues]_vars

\* ======================================================== the claims
CatalogNames == Range(catalog_order)

\* The keys whose value names another variable.
PointerKeys == DependKeys \cup Range(LabelKeys) \cup {"DELTA_PLUS_VAR", "DELTA_MINUS_VAR"}

\* The catalog, as built, has an attribute naming a variable it does not hold.
NamesAbsentVariable ==
    \E v \in CatalogNames : \E key \in PointerKeys \cap DOMAIN built_attributes[v] :
        built_attributes[v][key] \notin CatalogNames

\* C1: when the classification pass has ended, every catalog variable is in
\* exactly one of created_coord_vars and created_data_vars.
C1_ClassifiedExactlyOnce ==
    pc = "done" =>
        \A v \in CatalogNames : (v \in created_coord_vars) # (v \in created_data_vars)

\* C2: a catalog in which an attribute names an absent variable never brings
\* the conversion to an error.
C2_AbsentReferenceNeverAborts ==
    NamesAbsentVariable => pc # "error"

\* C3: after the conversion, a variable whose LABL_PTR_<p> names an absent
\* variable L has LABLAXIS = long_name = L, L is no label variable and no
\* coordinate, and the warning was printed.
C3_AbsentLabelBecomesDisplayName ==
    pc = "done" =>
        \A v \in CatalogNames : \A lab \in Range(LabelKeys) \cap DOMAIN built_attributes[v] :
            built_attributes[v][lab] \notin CatalogNames =>
                /\ "LABLAXIS" \in DOMAIN all_variable_attributes[v]
                /\ all_variable_attributes[v]["LABLAXIS"] = built_attributes[v][lab]
                /\ "long_name" \in DOMAIN all_variable_attributes[v]
                /\ all_variable_attributes[v]["long_name"] = built_attributes[v][lab]
                /\ built_attributes[v][lab] \notin DictKeys(label_variables)
                /\ built_attributes[v][lab] \notin created_coord_vars
                /\ Diag("label does not exist", v) \in diagnostics

\* v varies by record, has records, declares DEPEND_0 = d with d in the catalog
\* and as long as v, and is not its own record dimension.
Depend0Applies(v, d) ==
    /\ all_variable_properties[v].Rec_Vary
    /\ all_variable_properties[v].Last_Rec >= 0
    /\ "DEPEND_0" \in DOMAIN built_attributes[v]
    /\ built_attributes[v]["DEPEND_0"] = d
    /\ all_variable_data[d].len = all_variable_data[v].len
    /\ ~SelfIsRecordDimension(v, all_variable_properties[v],
                              DiscoverDependVariables(built_attributes))

\* C4: for such v and d the conversion gives a Dataset in which v's first
\* dimension is d and d is a coordinate.
C4_Depend0IsFirstDimension ==
    \A v \in CatalogNames, d \in CatalogNames :
        Depend0Applies(v, d) =>
            /\ pc # "error"
            /\ pc = "done" =>
                  /\ Len(created_vars[v].dims) > 0
                  /\ created_vars[v].dims[1] = VarDim(d)
                  /\ d \in created_coord_vars

\* a and b vary by record, are equally long and carry no DEPEND_0 and no
\* DEPEND_TIME.
SameLengthNoDepend(a, b) ==
    /\ a # b
    /\ all_variable_properties[a].Rec_Vary
    /\ all_variable_properties[b].Rec_Vary
    /\ all_variable_data[a].len = all_variable_data[b].len
    /\ {"DEPEND_0", "DEPEND_TIME"} \cap DOMAIN built_attributes[a] = {}
    /\ {"DEPEND_0", "DEPEND_TIME"} \cap DOMAIN built_attributes[b] = {}

SameMintedRecordDimension(a, b) ==
    /\ returned[a].record_dim_name = returned[b].record_dim_name
    /\ returned[a].record_dim_name.kind = "unlimited"

\* C5, as claimed: any two such variables are given the same unlimited<N> as
\* record dimension, whatever else the catalog holds.
C5_SameLengthSharesUnlimited ==
    \A a \in DOMAIN returned, b \in DOMAIN returned :
        SameLengthNoDepend(a, b) => SameMintedRecordDimension(a, b)

\* v has more or fewer than one record and no DEPEND_* attribute of the
\* catalog makes it its own record dimension.
ReachesAnonymousStep(v) ==
    /\ all_variable_properties[v].Last_Rec # 0
    /\ ~(/\ \E w \in CatalogNames : \E key \in DependKeys \cap DOMAIN built_attributes[w] :
               built_attributes[w][key] = v
         /\ Len(all_variable_properties[v].Dim_Sizes) = 0
              \/ all_variable_properties[v].Last_Rec >= 0
         /\ \/ ~(Len(all_variable_properties[v].Dim_Sizes) > 0
                   /\ all_variable_properties[v].Last_Rec > 0)
            \/ \A k \in DOMAIN all_variable_properties[v].Dim_Sizes :
                   ~all_variable_properties[v].Dim_Vary[k])

\* C5, amended: two such variables whose Last_Rec is not 0 and that are not
\* their own record dimension are given the same unlimited<N>.
C5_SameLengthSharesUnlimitedAmended ==
    \A a \in DOMAIN returned, b \in DOMAIN returned :
        (SameLengthNoDepend(a, b) /\ ReachesAnonymousStep(a) /\ ReachesAnonymousStep(b))
            => SameMintedRecordDimension(a, b)

\* A third variable of another length has minted unlimited0 before the two
\* equally long ones came, and they share unlimited1.
C5_Witness ==
    /\ catalog_order = ThreeVariables
    /\ DOMAIN returned = CatalogNames
    /\ returned["a"].record_dim_name = UnlimitedDim(0)
    /\ SameLengthNoDepend("b", "c")
    /\ ReachesAnonymousStep("b")
    /\ ReachesAnonymousStep("c")
    /\ returned["b"].newly_created
    /\ returned["b"].record_dim_name = UnlimitedDim(1)
    /\ returned["c"].record_dim_name = UnlimitedDim(1)

RegistryInjective(registry) ==
    \A j \in DOMAIN registry, k \in DOMAIN registry :
        j # k => (registry[j].k # registry[k].k /\ registry[j].v # registry[k].v)

\* The anonymous names given so far, each with the size it was given for.
AnonymousGiven ==
    {[name |-> returned[v].record_dim_name, size |-> all_variable_data[v].len] :
        v \in {w \in DOMAIN returned : returned[w].record_dim_name.kind = "unlimited"}}
    \cup UNION {{[name |-> returned[v].dimension_info[k].name,
                  size |-> returned[v].dimension_info[k].size] :
                    k \in {m \in DOMAIN returned[v].dimension_info :
                              returned[v].dimension_info[m].name.kind = "dim"}} :
                v \in DOMAIN returned}

\* C6: in every state of a resolution pass no two entries of either registry
\* have the same name or the same size, no name is in both registries, every
\* anonymous name given to a variable still has in its registry the size it
\* was given for, and so anonymous names given for different sizes differ.
C6_RegistryInjective ==
    /\ RegistryInjective(created_unlimited_dims)
    /\ RegistryInjective(created_regular_dims)
    /\ DictKeys(created_unlimited_dims) \cap DictKeys(created_regular_dims) = {}
    /\ \A g \in AnonymousGiven :
          LET registry == IF g.name.kind = "unlimited" THEN created_unlimited_dims
                          ELSE created_regular_dims
          IN  g.name \in DictKeys(registry) /\ DictGet(registry, g.name) = g.size
    /\ \A g \in AnonymousGiven, h \in AnonymousGiven :
          g.size # h.size => g.name # h.name

C6_Witness ==
    /\ pc = "done"
    /\ Len(created_regular_dims) = 2
    /\ \E v \in DOMAIN returned, w \in DOMAIN returned :
          /\ Len(returned[v].dimension_info) = 1
          /\ Len(returned[w].dimension_info) = 1
          /\ returned[v].dimension_info[1].name = RegularDim(0)
          /\ returned[w].dimension_info[1].name = RegularDim(1)
          /\ returned[v].dimension_info[1].size # returned[w].dimension_info[1].size

\* C7: a call with to_datetime and to_unixtime both set returns what the call
\* with to_unixtime alone returns (data, attribute values, the attributes as
\* rewritten), and prints the warning.
C7_BothFlagsIsUnixtime ==
    (pc = "called" /\ call.fn = "_convert_cdf_time_types"
        /\ call.to_datetime /\ call.to_unixtime) =>
        LET alone == ConvertCdfTimeTypes(call.data, call.atts, call.properties, FALSE, TRUE)
        IN  /\ ret.new_data = alone.new_data
            /\ ret.new_atts = alone.new_atts
            /\ ret.atts = alone.atts
            /\ ret.warned

C7_Witness ==
    /\ pc = "called"
    /\ call.fn = "_convert_cdf_time_types"
    /\ call.to_datetime
    /\ call.to_unixtime
    /\ call.properties.Data_Type_Description = "CDF_EPOCH"
    /\ Len(call.data) = 2
    /\ ret.new_data = EpochToUnixtime(call.data)
    /\ "UNITS" \in DOMAIN call.atts
    /\ ret.new_atts["UNITS"] = <<UnitsSeconds>>
    /\ "VALIDMIN" \in DOMAIN call.atts
    /\ ret.new_atts["VALIDMIN"] = EpochToUnixtime(call.atts["VALIDMIN"].Data)

\* C8: a variable that declares FILLVAL and whose data is that value everywhere
\* is all missing after the fill step when fill-to-missing is requested, and
\* unchanged when it is not, whatever its declared type and element count.
C8_AllFillBecomesMissing ==
    (pc = "called" /\ call.fn = "_convert_fillvals_to_nan"
        /\ "FILLVAL" \in DOMAIN call.var_atts
        /\ \A k \in DOMAIN call.var_data.values :
               call.var_data.values[k] = call.var_atts["FILLVAL"][1]) =>
        IF call.fillval_to_nan
        THEN \A k \in DOMAIN ret.values : ret.values[k] = NaN
        ELSE ret = call.var_data

\* C9: when the conversion has ended, the catalog is as it was built.
C9_CatalogUnchanged ==
    pc = "done" =>
        /\ all_variable_attributes = built_attributes
        /\ all_variable_data = [v \in CatalogNames |-> DataOf(all_variable_properties[v])]

\* C10, as claimed: no record dimension name is returned for v exactly when v
\* does not vary by record or has no record (Last_Rec < 0).
C10_SkippedIffNoRecord ==
    \A v \in DOMAIN returned :
        (returned[v].record_dim_name = NoDim)
            <=> (~all_variable_properties[v].Rec_Vary \/ all_variable_properties[v].Last_Rec < 0)

\* C10, amended: no record dimension name is returned for v exactly when v does
\* not vary by record or Last_Rec = 0; any other variable is assembled with the
\* returned name as its first dimension.
C10_SkippedIffLastRecZero ==
    \A v \in DOMAIN returned :
        /\ (returned[v].record_dim_name = NoDim)
              <=> (~all_variable_properties[v].Rec_Vary
                      \/ all_variable_properties[v].Last_Rec = 0)
        /\ (pc = "generate" /\ returned[v].record_dim_name # NoDim) =>
              /\ Len(created_vars[v].dims) > 0
              /\ created_vars[v].dims[1] = returned[v].record_dim_name

C10_Witness ==
    /\ pc = "generate"
    /\ DOMAIN returned = CatalogNames
    /\ all_variable_properties["a"].Rec_Vary
    /\ all_variable_properties["a"].Last_Rec = 0
    /\ returned["a"].record_dim_name = NoDim
    /\ all_variable_properties["b"].Rec_Vary
    /\ all_variable_properties["b"].Last_Rec = -1
    /\ created_vars["b"].dims[1] = UnlimitedDim(0)

\* The sizes of the axes of props that vary, in axis order, from axis k on.
RECURSIVE VaryingSizesFrom(_, _)
VaryingSizesFrom(k, props) ==
    IF k > Len(props.Dim_Sizes) THEN <<>>
    ELSE IF props.Dim_Vary[k]
    THEN <<props.Dim_Sizes[k]>> \o VaryingSizesFrom(k + 1, props)
    ELSE VaryingSizesFrom(k + 1, props)

\* C11: for a variable with axes and Last_Rec >= 0, _determine_dimension_names
\* returns one binding per varying axis and none for the others: as many
\* bindings as Dim_Vary has true entries, the k-th of the size of the k-th
\* varying axis.
C11_OneBindingPerVaryingAxis ==
    \A v \in DOMAIN returned :
        (Len(all_variable_properties[v].Dim_Sizes) # 0
            /\ all_variable_properties[v].Last_Rec >= 0) =>
            [k \in DOMAIN returned[v].dimension_info |-> returned[v].dimension_info[k].size]
                = VaryingSizesFrom(1, all_variable_properties[v])

\* The dims v was assembled with by _generate_xarray_data_variables.
ResolvedDims(v) ==
    ReformatVariableDims(
        DimsFrom(1, returned[v].dimension_info,
                 IF Truthy(returned[v].record_dim_name)
                 THEN <<returned[v].record_dim_name>> ELSE <<>>),
        all_variable_data[v])

\* C12: in the Dataset, a catalog variable u of uncertainty_variables that is
\* no label variable and no depend dimension is a coordinate with its parent's
\* dims when it has as many elements as its parent, and otherwise a data
\* variable with the dims it was assembled with.
C12_CompanionFollowsParent ==
    pc = "done" =>
        \A u \in (DictKeys(uncertainty_variables) \cap CatalogNames)
                    \ DictKeys(label_variables) :
            ~IsDependDimension(u, depend_dimensions) =>
                LET p == DictGet(uncertainty_variables, u)
                IN  IF all_variable_data[u].size = all_variable_data[p].size
                    THEN /\ u \in created_coord_vars
                         /\ u \notin created_data_vars
                         /\ created_vars[u].dims = created_vars[p].dims
                    ELSE /\ u \in created_data_vars
                         /\ u \notin created_coord_vars
                         /\ created_vars[u].dims = ResolvedDims(u)

\* C13: while _generate_xarray_data_variables runs, no assembled variable has
\* the same dimension name at two places of its dims.
C13_DimsPairwiseDistinct ==
    pc = "generate" =>
        \A v \in DOMAIN created_vars :
            \A j \in DOMAIN created_vars[v].dims, k \in DOMAIN created_vars[v].dims :
                j # k => created_vars[v].dims[j] # created_vars[v].dims[k]

====
